---- MODULE Spec2Model ----
(***************************************************************************)
(* HDF5FileHandler (satpy/readers/hdf5_utils.py): the constructor scans an *)
(* HDF5 file into the flat mapping file_content and closes the scanning    *)
(* handle; __getitem__, __contains__ and get answer from that mapping and  *)
(* reopen the file for datasets.                                           *)
(*                                                                         *)
(* Paths and keys are sequences of their "/"-separated components, so the  *)
(* key "t/attr/units" is <<"t", "attr", "units">> and the root key         *)
(* "/attr/source" (name '') is <<"", "attr", "source">>.                   *)
(***************************************************************************)
EXTENDS Integers, Sequences, FiniteSets, TLC

VARIABLES file, file_content, handles, nextId, pc, nodeIdx, attrIdx,
          log, exc, lastOp, arrays

vars == <<file, file_content, handles, nextId, pc, nodeIdx, attrIdx,
          log, exc, lastOp, arrays>>

\* Largest rank of the dataset "t" in the files explored.
MaxRank == 3
\* Largest number of dataset lookups after construction.
MaxLookups == 2

(***************************************************************************)
(* Values.  Every value (index entry, lookup result, raw attribute value)  *)
(* is a record with the same fields; unused fields keep their defaults.    *)
(***************************************************************************)
Blank ==
    [kind |-> "None", name |-> <<>>, dtype |-> "", dims |-> <<>>, data |-> "",
     valid |-> TRUE, target |-> <<>>, labels |-> <<>>, attrs |-> <<>>, handle |-> 0]

\* Python's None.
NoneVal == Blank

\* A caller-supplied default object, distinct from anything the file holds.
DefaultObj == [Blank EXCEPT !.kind = "default"]

\* A raw attribute value as h5py returns it: an element type, the
\* dimensions, the content; valid says whether bytes decode as text, target
\* is the path an object reference points to (<<>>: a null reference).
Raw(dtype, dims, data, valid, target) ==
    [Blank EXCEPT !.kind = "ndarray", !.dtype = dtype, !.dims = dims,
                  !.data = data, !.valid = valid, !.target = target]

BytesK    == Raw("bytes", <<>>, "K", TRUE, <<>>)
BytesArr1 == Raw("bytes", <<1>>, "test", TRUE, <<>>)
BytesBad  == Raw("bytes", <<>>, "bad", FALSE, <<>>)
BytesArr2 == Raw("bytes", <<2>>, "ab", TRUE, <<>>)
NumArr    == Raw("float", <<1, 2>>, "nums", TRUE, <<>>)
RefT      == Raw("ref", <<>>, "", TRUE, <<"t">>)
RefG      == Raw("ref", <<>>, "", TRUE, <<"g">>)
RefNull   == Raw("ref", <<>>, "", TRUE, <<>>)
RefArr1   == Raw("ref", <<1>>, "", TRUE, <<"t">>)

InlineValues == {BytesK, BytesArr1, BytesBad, BytesArr2, NumArr}
RefValues == {RefT, RefG, RefNull, RefArr1}

(***************************************************************************)
(* Files.  A file is its nodes in visititems order (pre-order) and the     *)
(* root's attributes.  The files explored hold a group "g", optionally a   *)
(* group "g/attr" with a dataset "g/attr/a" beneath it, and a dataset "t". *)
(***************************************************************************)
Attr(key, value) == [key |-> key, value |-> value]

Shape(rank) == [i \in 1..rank |-> i + 2]

Node(name, kind, shape, attrs) ==
    [name |-> name, kind |-> kind, dtype |-> IF kind = "Dataset" THEN "float32" ELSE "",
     shape |-> shape, data |-> IF kind = "Dataset" THEN "data" ELSE "", attrs |-> attrs]

MkFile(openable, shadow, rank, ga, tr, rs) ==
    [openable |-> openable,
     nodes |-> <<Node(<<"g">>, "Group", <<>>, ga)>>
               \o (IF shadow
                   THEN <<Node(<<"g", "attr">>, "Group", <<>>, <<>>),
                          Node(<<"g", "attr", "a">>, "Dataset", Shape(1), <<>>)>>
                   ELSE <<>>)
               \o <<Node(<<"t">>, "Dataset", Shape(rank),
                         tr \o <<Attr("units", BytesK)>>)>>,
     attrs |-> rs]

Opt(key, values) == {<<>>} \cup {<<Attr(key, v)>> : v \in values}

\* Object references among the root's attributes are left out: resolving
\* them goes through hf[''] (line 72 with name ''), whose outcome h5py
\* decides and the source does not show.
Files ==
    {MkFile(TRUE, shadow, 2, ga, tr, rs) :
        shadow \in BOOLEAN,
        ga \in Opt("a", InlineValues \cup RefValues),
        tr \in Opt("r", RefValues \cup {BytesArr1}),
        rs \in Opt("source", {BytesArr1, NumArr})}
    \cup {MkFile(TRUE, shadow, rank, ga, <<>>, <<>>) :
        shadow \in BOOLEAN, rank \in 0..MaxRank, ga \in Opt("a", {BytesK})}
    \cup {MkFile(FALSE, FALSE, 2, <<>>, <<>>, <<>>)}

NodeAt(f, path) == CHOOSE n \in {f.nodes[i] : i \in 1..Len(f.nodes)} : n.name = path
HasNode(f, path) == \E i \in 1..Len(f.nodes) : f.nodes[i].name = path

(***************************************************************************)
(* The index.                                                              *)
(***************************************************************************)
EmptyContent == [k \in {} |-> Blank]

Put(fc, k, v) == [x \in DOMAIN fc \cup {k} |-> IF x = k THEN v ELSE fc[x]]

\* np.squeeze left out: the value is stored with its singleton dimensions.
np_squeeze_skipped(value) == value

\* np.squeeze (line 55): singleton dimensions are removed.
np_squeeze(value) ==
    [value EXCEPT !.dims = SelectSeq(value.dims, LAMBDA d : d # 1)]

RECURSIVE Size(_)
Size(dims) == IF dims = <<>> THEN 1 ELSE Head(dims) * Size(Tail(dims))

\* np2str: one text-like element decodes to a string; anything else that is
\* not text-like or holds several elements is a ValueError, as are bytes
\* that do not decode; an object reference has no decode (AttributeError).
np2str(value) ==
    IF value.dtype \in {"bytes", "str", "ref"} /\ Size(value.dims) = 1
    THEN IF value.dtype = "ref" THEN [exc |-> "AttributeError", val |-> NoneVal]
         ELSE IF value.dtype = "bytes" /\ ~value.valid
              THEN [exc |-> "ValueError", val |-> NoneVal]
              ELSE [exc |-> "", val |-> [Blank EXCEPT !.kind = "str", !.data = value.data]]
    ELSE [exc |-> "ValueError", val |-> NoneVal]

\* fc_key = "{}/attr/{}".format(name, key)  (line 56)
fc_key(name, key) == name \o <<"attr", key>>

\* The value read from a dataset with [()] (line 74).
Contents(node) ==
    [Blank EXCEPT !.kind = "ndarray", !.dtype = node.dtype, !.dims = node.shape,
                  !.data = node.data]

\* get_reference, lines 72-74, on the raw (unsqueezed) attribute value: only
\* a scalar attribute is a Reference object; a null reference or one to a
\* group cannot be read with [()] and raises.
get_reference(f, raw) ==
    IF raw.dtype = "ref" /\ raw.dims = <<>>
    THEN IF HasNode(f, raw.target) /\ NodeAt(f, raw.target).kind = "Dataset"
         THEN [exc |-> "", val |-> Contents(NodeAt(f, raw.target))]
         ELSE [exc |-> "Error", val |-> NoneVal]
    ELSE [exc |-> "", val |-> NoneVal]

\* collect_metadata, lines 78-81: the three entries of a dataset.
DatasetObj(node) ==
    [Blank EXCEPT !.kind = "Dataset", !.name = node.name, !.dtype = node.dtype,
                  !.dims = node.shape]

\* collect_metadata recording the entries of every node, groups included.
collect_metadata_any_node(fc, node) ==
    Put(Put(Put(fc, node.name, [Blank EXCEPT !.kind = "Dataset", !.name = node.name,
                                             !.dtype = node.dtype, !.dims = node.shape]),
            node.name \o <<"dtype">>, [Blank EXCEPT !.kind = "dtype", !.dtype = node.dtype]),
        node.name \o <<"shape">>, [Blank EXCEPT !.kind = "shape", !.dims = node.shape])

\* collect_metadata leaving a key alone that already holds an entry.
collect_metadata_keep_existing(fc, node) ==
    IF node.kind = "Dataset" /\ node.name \notin DOMAIN fc
    THEN Put(Put(Put(fc, node.name, DatasetObj(node)),
                 node.name \o <<"dtype">>, [Blank EXCEPT !.kind = "dtype", !.dtype = node.dtype]),
             node.name \o <<"shape">>, [Blank EXCEPT !.kind = "shape", !.dims = node.shape])
    ELSE fc

collect_metadata(fc, node) ==
    IF node.kind = "Dataset"
    THEN Put(Put(Put(fc, node.name, DatasetObj(node)),
                 node.name \o <<"dtype">>, [Blank EXCEPT !.kind = "dtype", !.dtype = node.dtype]),
             node.name \o <<"shape">>, [Blank EXCEPT !.kind = "shape", !.dims = node.shape])
    ELSE fc

(***************************************************************************)
(* The constructor.                                                        *)
(***************************************************************************)
N == Len(file.nodes)
\* The node whose attributes are being collected; nodeIdx = N + 1 is the
\* root, collected last under the name '' (line 50).
CurName == IF nodeIdx <= N THEN file.nodes[nodeIdx].name ELSE <<"">>
CurAttrs == IF nodeIdx <= N THEN file.nodes[nodeIdx].attrs ELSE file.attrs
CurAttr == CurAttrs[attrIdx]
CurKey == fc_key(CurName, CurAttr.key)

Handle(id, role) == [id |-> id, role |-> role]
NewHandle(role) == Handle(nextId, role)

NoOp == [op |-> "none", key |-> <<>>, default |-> NoneVal, exc |-> "", val |-> NoneVal]

Init ==
    /\ file \in Files
    /\ file_content = EmptyContent
    /\ handles = {}
    /\ nextId = 1
    /\ pc = "init"
    /\ nodeIdx = 0
    /\ attrIdx = 0
    /\ log = <<>>
    /\ exc = ""
    /\ lastOp = NoOp
    /\ arrays = <<>>

\* Line 43: h5py.File(self.filename, 'r') succeeds.
OpenFile ==
    /\ pc = "init" /\ file.openable
    /\ handles' = handles \cup {NewHandle("scan")}
    /\ nextId' = nextId + 1
    /\ pc' = "visit"
    /\ nodeIdx' = 1
    /\ UNCHANGED <<file, file_content, attrIdx, log, exc, lastOp, arrays>>

\* The open failure logged but not re-raised: construction "succeeds".
OpenFailedSwallowed ==
    /\ pc = "init" /\ ~file.openable
    /\ log' = Append(log, [level |-> "ERROR", key |-> <<>>])
    /\ pc' = "done"
    /\ UNCHANGED <<file, file_content, handles, nextId, nodeIdx, attrIdx, exc, lastOp, arrays>>

\* Lines 44-47: the open fails; LOG.exception, then raise.
OpenFailed ==
    /\ pc = "init" /\ ~file.openable
    /\ log' = Append(log, [level |-> "ERROR", key |-> <<>>])
    /\ exc' = "IOError"
    /\ pc' = "raised"
    /\ UNCHANGED <<file, file_content, handles, nextId, nodeIdx, attrIdx, lastOp, arrays>>

\* Lines 49, 76-82: visititems calls collect_metadata on the next node.
Visit ==
    /\ pc = "visit" /\ nodeIdx <= N
    /\ file_content' = collect_metadata(file_content, file.nodes[nodeIdx])
    /\ pc' = "attrs"
    /\ attrIdx' = 1
    /\ UNCHANGED <<file, handles, nextId, nodeIdx, log, exc, lastOp, arrays>>

\* Line 50: the traversal is over; the root's attributes are collected.
VisitDone ==
    /\ pc = "visit" /\ nodeIdx = N + 1
    /\ pc' = "attrs"
    /\ attrIdx' = 1
    /\ UNCHANGED <<file, file_content, handles, nextId, nodeIdx, log, exc, lastOp, arrays>>

\* Lines 54-63: one attribute of _collect_attrs.  On AttributeError
\* get_reference is entered and opens its own handle (line 71).
CollectAttr ==
    /\ pc = "attrs" /\ attrIdx <= Len(CurAttrs)
    /\ LET value == np_squeeze(CurAttr.value)
           r == np2str(value)
       IN  \/ /\ r.exc = ""
              /\ file_content' = Put(file_content, CurKey, r.val)
              /\ attrIdx' = attrIdx + 1
              /\ UNCHANGED <<pc, handles, nextId>>
           \/ /\ r.exc = "ValueError"
              /\ file_content' = Put(file_content, CurKey, value)
              /\ attrIdx' = attrIdx + 1
              /\ UNCHANGED <<pc, handles, nextId>>
           \/ /\ r.exc = "AttributeError"
              /\ handles' = handles \cup {NewHandle("ref")}
              /\ nextId' = nextId + 1
              /\ pc' = "getref"
              /\ UNCHANGED <<file_content, attrIdx>>
    /\ UNCHANGED <<file, nodeIdx, log, exc, lastOp, arrays>>

\* get_reference without the with block: its handle is closed on the path
\* that returns a value only.
GetReferenceLeaky ==
    /\ pc = "getref"
    /\ LET r == get_reference(file, CurAttr.value)
       IN  \/ /\ r.exc = "" /\ r.val # NoneVal
              /\ handles' = {h \in handles : h.role # "ref"}
              /\ file_content' = Put(file_content, CurKey, r.val)
              /\ pc' = "attrs"
              /\ attrIdx' = attrIdx + 1
              /\ UNCHANGED <<log, exc>>
           \/ /\ r.exc = "" /\ r.val = NoneVal
              /\ log' = Append(log, [level |-> "WARNING", key |-> CurKey])
              /\ pc' = "attrs"
              /\ attrIdx' = attrIdx + 1
              /\ UNCHANGED <<file_content, exc, handles>>
           \/ /\ r.exc # ""
              /\ exc' = r.exc
              /\ pc' = "raised"
              /\ UNCHANGED <<file_content, attrIdx, log, handles>>
    /\ UNCHANGED <<file, nextId, nodeIdx, lastOp, arrays>>

\* Lines 72-74 and 64-67: get_reference leaves its with block, which closes
\* its handle; the caller stores the value, warns on None, or is unwound by
\* the exception, which nothing in the constructor catches.
GetReference ==
    /\ pc = "getref"
    /\ handles' = {h \in handles : h.role # "ref"}
    /\ LET r == get_reference(file, CurAttr.value)
       IN  \/ /\ r.exc = "" /\ r.val # NoneVal
              /\ file_content' = Put(file_content, CurKey, r.val)
              /\ pc' = "attrs"
              /\ attrIdx' = attrIdx + 1
              /\ UNCHANGED <<log, exc>>
           \/ /\ r.exc = "" /\ r.val = NoneVal
              /\ log' = Append(log, [level |-> "WARNING", key |-> CurKey])
              /\ pc' = "attrs"
              /\ attrIdx' = attrIdx + 1
              /\ UNCHANGED <<file_content, exc>>
           \/ /\ r.exc # ""
              /\ exc' = r.exc
              /\ pc' = "raised"
              /\ UNCHANGED <<file_content, attrIdx, log>>
    /\ UNCHANGED <<file, nextId, nodeIdx, lastOp, arrays>>

\* _collect_attrs returns: to visititems for a node, to line 51 for the root.
AttrsDone ==
    /\ pc = "attrs" /\ attrIdx > Len(CurAttrs)
    /\ IF nodeIdx <= N
       THEN pc' = "visit" /\ nodeIdx' = nodeIdx + 1
       ELSE pc' = "close" /\ UNCHANGED nodeIdx
    /\ UNCHANGED <<file, file_content, handles, nextId, attrIdx, log, exc, lastOp, arrays>>

\* Line 51: file_handle.close().
CloseFile ==
    /\ pc = "close"
    /\ handles' = {h \in handles : h.role # "scan"}
    /\ pc' = "done"
    /\ UNCHANGED <<file, file_content, nextId, nodeIdx, attrIdx, log, exc, lastOp, arrays>>

(***************************************************************************)
(* Access to the index after construction.                                 *)
(***************************************************************************)
\* Line 87: isinstance(val, h5py.Dataset).
IsDataset(val) == val.kind = "Dataset"

\* The axis labels given to every array of rank 2 or more.
AxisLabelsFromRank2(ndim) == IF ndim >= 2 THEN <<"y", "x">> ELSE <<>>

\* Lines 91-93: dims=['y', 'x'] is passed for rank 2 and nothing otherwise.
AxisLabels(ndim) == IF ndim = 2 THEN <<"y", "x">> ELSE <<>>

\* The array of a path looked up before bound to the handle opened then.
DataArrayPooledHandle(f, key, id) ==
    LET dset == NodeAt(f, key)
        seen == {i \in 1..Len(arrays) : arrays[i].name = key}
    IN  [Blank EXCEPT !.kind = "DataArray", !.name = key, !.dtype = dset.dtype,
                      !.dims = dset.shape, !.data = dset.data,
                      !.labels = IF Len(dset.shape) = 2 THEN <<"y", "x">> ELSE <<>>,
                      !.attrs = dset.attrs,
                      !.handle = IF seen = {} THEN id
                                 ELSE arrays[CHOOSE i \in seen : TRUE].handle]

\* Lines 89-93: the dataset found under key in the reopened file, wrapped
\* with its attributes; the array keeps the handle it reads through.
DataArray(f, key, id) ==
    LET dset == NodeAt(f, key)
    IN  [Blank EXCEPT !.kind = "DataArray", !.name = key, !.dtype = dset.dtype,
                      !.dims = dset.shape, !.data = dset.data,
                      !.labels = AxisLabels(Len(dset.shape)),
                      !.attrs = dset.attrs, !.handle = id]

\* A handle kept from the first lookup and used again by the later ones.
OpenForLookupCached(hs, id) ==
    IF \E h \in hs : h.role = "lookup" THEN hs ELSE hs \cup {Handle(id, "lookup")}

\* Line 89: h5py.File(self.filename, 'r'), a handle nothing closes.
OpenForLookup(hs, id) == hs \cup {Handle(id, "lookup")}

\* __getitem__ reopening the file before it looks at the kind of the entry.
getitem_reopen_first(key) ==
    IF key \notin DOMAIN file_content
    THEN [exc |-> "KeyError", val |-> NoneVal, opened |-> FALSE]
    ELSE LET val == file_content[key]
         IN  IF IsDataset(val)
             THEN [exc |-> "", val |-> DataArray(file, key, nextId), opened |-> TRUE]
             ELSE [exc |-> "", val |-> val, opened |-> TRUE]

\* __getitem__, lines 84-95: the exception or value, and whether the file
\* was reopened.
getitem(key) ==
    IF key \notin DOMAIN file_content
    THEN [exc |-> "KeyError", val |-> NoneVal, opened |-> FALSE]
    ELSE LET val == file_content[key]
         IN  IF IsDataset(val)
             THEN [exc |-> "", val |-> DataArray(file, key, nextId), opened |-> TRUE]
             ELSE [exc |-> "", val |-> val, opened |-> FALSE]

\* __contains__, lines 97-99.
contains(item) == item \in DOMAIN file_content

\* get without the membership test.
get_unguarded(item, default) == getitem(item)

\* get, lines 101-106.
get(item, default) ==
    IF contains(item)
    THEN getitem(item)
    ELSE [exc |-> "", val |-> default, opened |-> FALSE]

Bool(b) == [Blank EXCEPT !.kind = "bool", !.data = IF b THEN "True" ELSE "False"]

\* The keys callers ask for: every path of the file with and without the
\* /shape and /dtype suffixes, every attribute key, and a path not in the file.
ProbeKeys ==
    LET names == {file.nodes[i].name : i \in 1..N}
    IN  names
        \cup {n \o <<"shape">> : n \in names}
        \cup {n \o <<"dtype">> : n \in names}
        \cup UNION {{fc_key(file.nodes[i].name, file.nodes[i].attrs[j].key) :
                         j \in 1..Len(file.nodes[i].attrs)} : i \in 1..N}
        \cup {fc_key(<<"">>, file.attrs[j].key) : j \in 1..Len(file.attrs)}
        \cup {<<"missing">>}

Defaults == {NoneVal, DefaultObj}

\* The effect of a lookup's result r on the handles and on the arrays handed out.
Returned(r) ==
    IF r.opened
    THEN /\ Len(arrays) < MaxLookups
         /\ handles' = OpenForLookup(handles, nextId)
         /\ nextId' = nextId + 1
         /\ arrays' = Append(arrays, r.val)
    ELSE UNCHANGED <<handles, nextId, arrays>>

Contains(k) ==
    /\ pc = "done"
    /\ lastOp' = [op |-> "contains", key |-> k, default |-> NoneVal, exc |-> "",
                  val |-> Bool(contains(k))]
    /\ UNCHANGED <<file, file_content, handles, nextId, pc, nodeIdx, attrIdx, log, exc, arrays>>

\* __getitem__ keeping the array it built in file_content.
GetItemMemoized(k) ==
    /\ pc = "done"
    /\ LET r == getitem(k)
       IN  /\ Returned(r)
           /\ lastOp' = [op |-> "getitem", key |-> k, default |-> NoneVal,
                         exc |-> r.exc, val |-> r.val]
           /\ file_content' = IF r.opened THEN Put(file_content, k, r.val)
                                          ELSE file_content
    /\ UNCHANGED <<file, pc, nodeIdx, attrIdx, log, exc>>

GetItem(k) ==
    /\ pc = "done"
    /\ LET r == getitem(k)
       IN  /\ Returned(r)
           /\ lastOp' = [op |-> "getitem", key |-> k, default |-> NoneVal,
                         exc |-> r.exc, val |-> r.val]
    /\ UNCHANGED <<file, file_content, pc, nodeIdx, attrIdx, log, exc>>

Get(k, d) ==
    /\ pc = "done"
    /\ LET r == get(k, d)
       IN  /\ Returned(r)
           /\ lastOp' = [op |-> "get", key |-> k, default |-> d,
                         exc |-> r.exc, val |-> r.val]
    /\ UNCHANGED <<file, file_content, pc, nodeIdx, attrIdx, log, exc>>

Next ==
    \/ OpenFile
    \/ OpenFailed
    \/ Visit
    \/ VisitDone
    \/ CollectAttr
    \/ GetReference
    \/ AttrsDone
    \/ CloseFile
    \/ \E k \in ProbeKeys : Contains(k)
    \/ \E k \in ProbeKeys : GetItem(k)
    \/ \E k \in ProbeKeys, d \in Defaults : Get(k, d)

Spec == Init /\ [][Next]_vars

(***************************************************************************)
(* Properties.                                                             *)
(***************************************************************************)
Nodes == {file.nodes[i] : i \in 1..N}
Datasets == {n \in Nodes : n.kind = "Dataset"}
PayloadKinds == {"Dataset", "dtype", "shape"}

\* The keys collect_metadata writes for the datasets of the file.
PayloadKeys ==
    UNION {{n.name, n.name \o <<"dtype">>, n.name \o <<"shape">>} : n \in Datasets}

\* Every attribute of the file with the name of its owner: [name, attr].
Attributes ==
    UNION {{[name |-> n.name, attr |-> n.attrs[j]] : j \in 1..Len(n.attrs)} : n \in Nodes}
    \cup {[name |-> <<"">>, attr |-> file.attrs[j]] : j \in 1..Len(file.attrs)}

Constructed == pc = "done"

\* C1: after a successful construction every dataset P has the entries P,
\* P/dtype and P/shape, the traversal produced payload entries for the
\* datasets only, and P/shape is the shape of the array a lookup of P returns.
C1_PayloadEntries ==
    Constructed =>
        /\ \A n \in Datasets :
              /\ {n.name, n.name \o <<"dtype">>, n.name \o <<"shape">>} \subseteq DOMAIN file_content
              /\ file_content[n.name].kind = "Dataset"
              /\ file_content[n.name \o <<"dtype">>].kind = "dtype"
              /\ file_content[n.name \o <<"dtype">>].dtype = n.dtype
              /\ file_content[n.name \o <<"shape">>].kind = "shape"
              /\ (lastOp.op \in {"getitem", "get"} /\ lastOp.key = n.name) =>
                    /\ lastOp.exc = ""
                    /\ lastOp.val.kind = "DataArray"
                    /\ lastOp.val.dims = file_content[n.name \o <<"shape">>].dims
        /\ {k \in DOMAIN file_content : file_content[k].kind \in PayloadKinds} = PayloadKeys

C1_Witness ==
    /\ Constructed
    /\ HasNode(file, <<"g", "attr", "a">>)
    /\ lastOp.op = "getitem" /\ lastOp.key = <<"t">>
    /\ lastOp.val.kind = "DataArray"
    /\ lastOp.val.dims = <<3, 4>>
    /\ file_content[<<"t", "shape">>].dims = <<3, 4>>

\* The dimensions of a squeezed value: those that are not 1, in order.
RECURSIVE WithoutOnes(_)
WithoutOnes(dims) ==
    IF dims = <<>> THEN <<>>
    ELSE IF Head(dims) = 1 THEN WithoutOnes(Tail(dims))
    ELSE <<Head(dims)>> \o WithoutOnes(Tail(dims))

\* What _collect_attrs is to leave under the key of an attribute: the
\* decoded text, the squeezed raw value, or the resolved reference.
Normalized(raw) ==
    LET value == [raw EXCEPT !.dims = WithoutOnes(raw.dims)]
        r == np2str(value)
    IN  IF r.exc = "" THEN r.val
        ELSE IF r.exc = "ValueError" THEN value
        ELSE get_reference(file, raw).val

\* C2 as stated: after a successful construction every attribute A of every
\* node P and of the root has its key P/attr/A in the index, holding the
\* normalized value.
C2_EveryAttributeIndexed ==
    Constructed =>
        \A a \in Attributes :
            /\ fc_key(a.name, a.attr.key) \in DOMAIN file_content
            /\ file_content[fc_key(a.name, a.attr.key)] = Normalized(a.attr.value)

\* C2 amended: after a successful construction, for every attribute whose
\* key is not written again by a dataset visited later, the key holds the
\* normalized value when there is one and is absent when the value is a
\* reference that resolves to nothing; a key a later dataset also writes
\* holds that dataset's entry.
C2_AttributeIndexedUnlessEmptyOrShadowed ==
    Constructed =>
        \A a \in Attributes :
            LET k == fc_key(a.name, a.attr.key)
                v == Normalized(a.attr.value)
            IN  IF k \in PayloadKeys
                THEN k \in DOMAIN file_content /\ file_content[k].kind \in PayloadKinds
                ELSE IF v = NoneVal
                     THEN k \notin DOMAIN file_content
                     ELSE k \in DOMAIN file_content /\ file_content[k] = v

C2_Witness ==
    /\ Constructed
    /\ <<"g", "attr", "a">> \in DOMAIN file_content
    /\ file_content[<<"g", "attr", "a">>] = Raw("float", <<2>>, "nums", TRUE, <<>>)
    /\ <<"t", "attr", "r">> \in DOMAIN file_content
    /\ file_content[<<"t", "attr", "r">>].kind = "ndarray"
    /\ file_content[<<"t", "attr", "r">>].data = "data"
    /\ <<"", "attr", "source">> \in DOMAIN file_content
    /\ file_content[<<"", "attr", "source">>].kind = "str"
    /\ file_content[<<"t", "attr", "units">>].data = "K"

\* C3: whenever the constructor has finished, by returning or by raising,
\* the handle opened for scanning is not open.
C3_ScanHandleClosed ==
    pc \in {"done", "raised"} => ~\E h \in handles : h.role = "scan"

\* C4: a file that cannot be opened leaves one error in the log and the
\* IOError raised, with nothing traversed, no handle open and no index to use.
C4_OpenFailure ==
    /\ ~file.openable => pc \in {"init", "raised"}
    /\ (pc = "raised" /\ ~file.openable) =>
          /\ exc = "IOError"
          /\ log = <<[level |-> "ERROR", key |-> <<>>]>>
          /\ handles = {}
          /\ nextId = 1
          /\ nodeIdx = 0
          /\ file_content = EmptyContent
          /\ lastOp = NoOp
          /\ arrays = <<>>

C4_Witness == pc = "raised" /\ ~file.openable /\ exc = "IOError" /\ Len(log) = 1

\* C5: once the file has been opened no failure leaves the constructor: it
\* never ends by raising.
C5_NoFailurePropagates == file.openable => pc # "raised"

\* A reference-valued attribute that get_reference resolves to no value.
Unresolved(a) ==
    /\ a.attr.value.dtype = "ref"
    /\ get_reference(file, a.attr.value).val = NoneVal

Warnings(k) == {i \in 1..Len(log) : log[i] = [level |-> "WARNING", key |-> k]}

\* C6: in a file holding a reference-valued attribute that cannot be
\* resolved, the constructor does not raise, and when it is done the
\* attribute's key is absent and one warning names it.
C6_UnresolvedReferenceSkipped ==
    \A a \in Attributes :
        Unresolved(a) =>
            /\ pc # "raised"
            /\ Constructed =>
                  /\ fc_key(a.name, a.attr.key) \notin DOMAIN file_content
                  /\ Cardinality(Warnings(fc_key(a.name, a.attr.key))) = 1

\* C7: get of an absent key returns the default and [] of it raises
\* KeyError; get of a present key returns what [] returns, not the default.
C7_GetAndGetItem ==
    /\ (lastOp.op = "get" /\ lastOp.key \notin DOMAIN file_content) =>
          lastOp.exc = "" /\ lastOp.val = lastOp.default
    /\ (lastOp.op = "getitem" /\ lastOp.key \notin DOMAIN file_content) =>
          lastOp.exc = "KeyError"
    /\ (lastOp.op \in {"get", "getitem"} /\ lastOp.key \in DOMAIN file_content) =>
          /\ lastOp.exc = ""
          /\ lastOp.val # lastOp.default
          /\ IF file_content[lastOp.key].kind = "Dataset"
             THEN /\ lastOp.val.kind = "DataArray"
                  /\ lastOp.val.name = lastOp.key
                  /\ lastOp.val = arrays[Len(arrays)]
             ELSE lastOp.val = file_content[lastOp.key]

C7_Witness ==
    /\ lastOp.op = "get"
    /\ lastOp.key = <<"missing">>
    /\ lastOp.default = DefaultObj
    /\ lastOp.val = DefaultObj
    /\ Len(arrays) = 1

C7_WitnessPresent ==
    /\ lastOp.op = "get"
    /\ lastOp.key = <<"t">>
    /\ lastOp.val.kind = "DataArray"

\* C8: a membership test, a get of an absent key and a lookup of an entry
\* that is not a dataset open no file, and the lookup returns the entry.
C8_NoFileAccess ==
    [][(/\ Constructed
        /\ lastOp' # lastOp
        /\ \/ lastOp'.op = "contains"
           \/ lastOp'.op = "get" /\ lastOp'.key \notin DOMAIN file_content
           \/ /\ lastOp'.op = "getitem"
              /\ lastOp'.key \in DOMAIN file_content
              /\ file_content[lastOp'.key].kind # "Dataset")
       => /\ handles' = handles
          /\ nextId' = nextId
          /\ lastOp'.op = "getitem" =>
                lastOp'.exc = "" /\ lastOp'.val = file_content[lastOp'.key]]_vars

C8_Witness ==
    /\ Constructed
    /\ lastOp.op = "getitem"
    /\ lastOp.key = <<"t", "attr", "units">>
    /\ lastOp.val.kind = "str"
    /\ Cardinality(handles) = 1

LookupHandles == {h \in handles : h.role = "lookup"}

\* C9: the handles held for lookups are as many as the dataset lookups
\* performed, one for each array handed out, and none is shared or closed.
C9_OneHandlePerLookup ==
    Constructed =>
        /\ Cardinality(LookupHandles) = Len(arrays)
        /\ LookupHandles = {Handle(arrays[i].handle, "lookup") : i \in 1..Len(arrays)}
        /\ \A i, j \in 1..Len(arrays) : i # j => arrays[i].handle # arrays[j].handle

C9_Witness ==
    /\ Constructed
    /\ Len(arrays) = 2
    /\ arrays[1].name = arrays[2].name
    /\ Cardinality(LookupHandles) = 2

\* C10: an array returned for a dataset of rank 2 is labeled y, x, one of
\* any other rank has no labels, and both carry the dataset's attributes.
C10_AxisLabels ==
    \A i \in 1..Len(arrays) :
        LET n == NodeAt(file, arrays[i].name)
        IN  /\ arrays[i].kind = "DataArray"
            /\ Len(arrays[i].dims) = 2 => arrays[i].labels = <<"y", "x">>
            /\ Len(arrays[i].dims) # 2 => arrays[i].labels = <<>>
            /\ arrays[i].dims = n.shape
            /\ arrays[i].attrs = n.attrs

C10_Witness ==
    /\ Len(arrays) = 2
    /\ arrays[1].name = <<"t">> /\ arrays[1].labels = <<"y", "x">>
    /\ arrays[1].attrs # <<>>
    /\ arrays[2].name = <<"g", "attr", "a">> /\ arrays[2].labels = <<>>

C10_WitnessRank3 ==
    /\ Len(arrays) = 1
    /\ Len(arrays[1].dims) = 3 /\ arrays[1].labels = <<>>

Shadowed(a) ==
    /\ fc_key(a.name, a.attr.key) \in {n.name : n \in Datasets}
    /\ Normalized(a.attr.value) # NoneVal

\* C12 as stated: when the key of an attribute is also the path of a
\* dataset, the index holds the attribute's value under it after construction.
C12_AttributeWins ==
    Constructed =>
        \A a \in Attributes :
            Shadowed(a) =>
                file_content[fc_key(a.name, a.attr.key)] = Normalized(a.attr.value)

\* C12 amended: when the key of an attribute is also the path of a dataset,
\* the dataset is collected after the attribute and the index holds the
\* dataset under that key after construction; a lookup of it returns the array.
C12_PayloadWins ==
    Constructed =>
        \A a \in Attributes :
            Shadowed(a) =>
                LET k == fc_key(a.name, a.attr.key)
                IN  /\ k \in DOMAIN file_content
                    /\ file_content[k].kind = "Dataset"
                    /\ file_content[k].name = k
                    /\ file_content[k] # Normalized(a.attr.value)
                    /\ (lastOp.op = "getitem" /\ lastOp.key = k) =>
                          lastOp.val.kind = "DataArray"

C12_Witness ==
    /\ Constructed
    /\ \E a \in Attributes : Shadowed(a) /\ a.attr.value = BytesK
    /\ file_content[<<"g", "attr", "a">>].kind = "Dataset"
    /\ lastOp.op = "getitem" /\ lastOp.key = <<"g", "attr", "a">>

\* C13: once the constructor has returned, no step changes the index.
C13_IndexReadOnly ==
    [][Constructed => (file_content' = file_content /\ pc' = "done")]_vars

C13_Witness ==
    /\ Constructed
    /\ Len(arrays) = 2
    /\ lastOp.op = "get" /\ lastOp.key = <<"missing">>
    /\ <<"t">> \in DOMAIN file_content
    /\ file_content[<<"t">>].kind = "Dataset"

RefHandles == {h \in handles : h.role = "ref"}

\* C14: get_reference holds one handle of its own while it runs and has
\* closed it when it has returned or raised; construction never has more
\* than two handles open, and after a successful construction no handle is
\* open until a dataset is looked up.
C14_ReferenceHandleScoped ==
    /\ pc = "getref" =>
          /\ Cardinality(RefHandles) = 1
          /\ Cardinality(handles) = 2
    /\ pc # "getref" => RefHandles = {}
    /\ pc # "done" => Cardinality(handles) <= 2
    /\ (Constructed /\ arrays = <<>>) => handles = {}

C14_Witness ==
    /\ pc = "raised" /\ exc = "Error"
    /\ Len(log) = 1 /\ log[1].level = "WARNING"
    /\ <<"g", "attr", "a">> \notin DOMAIN file_content
    /\ RefHandles = {}
    /\ nextId = 4
====
